---- MODULE Spec2Model ----
(***************************************************************************)
(* A model of mbutil (src/mbutil/util.py): import of a tile directory     *)
(* tree into an MBTiles container (disk_to_mbtiles), compaction of the    *)
(* container (compression_prepare / compression_do / compression_finalize)*)
(* and export back to a sink (mbtiles_to_disk).                            *)
(*                                                                         *)
(* Text (directory names, file names, path segments, formats) is a         *)
(* sequence of one-character strings, so that parsing (int(), replace(),   *)
(* split()) and formatting (str(), "%03d") are computed, not assumed.      *)
(* Tile bytes are sequences of small integers.                             *)
(***************************************************************************)
EXTENDS Integers, Sequences, FiniteSets, TLC

(***************************************************************************)
(* Bounds of the model.                                                    *)
(***************************************************************************)
MaxZoom == 6
MaxFiles == 2
MaxTiles == 3
MaxRowId == 5
MaxChunk == 3
MaxExportTiles == 2

(***************************************************************************)
(* Python's int(), str.replace(), str() and "%0nd".                        *)
(***************************************************************************)
DecChars == <<"0", "1", "2", "3", "4", "5", "6", "7", "8", "9">>

HexChars == DecChars \o <<"a", "b", "c", "d", "e", "f">>

\* The digits int(s, base) accepts, for base 10 and base 16.
BaseChars(base) == IF base = 16 THEN HexChars ELSE DecChars

DigitVal(c, base) == (CHOOSE i \in 1..Len(BaseChars(base)) : BaseChars(base)[i] = c) - 1

IsDigit(c, base) == \E i \in 1..Len(BaseChars(base)) : BaseChars(base)[i] = c

\* int(s, base) raises ValueError unless s is a non-empty run of digits.
CanParse(s, base) == Len(s) > 0 /\ \A i \in 1..Len(s) : IsDigit(s[i], base)

RECURSIVE ParseInt(_, _)
ParseInt(s, base) ==
    IF Len(s) = 0 THEN 0
    ELSE ParseInt(SubSeq(s, 1, Len(s) - 1), base) * base + DigitVal(s[Len(s)], base)

\* s.replace(ch, ""): every occurrence of ch is removed.
Replace(s, ch) == SelectSeq(s, LAMBDA c : c # ch)

Contains(s, ch) == \E i \in 1..Len(s) : s[i] = ch

\* str(n) for a non-negative integer.
RECURSIVE StrNat(_)
StrNat(n) == IF n < 10 THEN <<DecChars[n + 1]>>
             ELSE StrNat(n \div 10) \o <<DecChars[(n % 10) + 1]>>

\* str(n), that is "%s" % n, for an integer.
Str(n) == IF n < 0 THEN <<"-">> \o StrNat(0 - n) ELSE StrNat(n)

RECURSIVE Zeros(_)
Zeros(k) == IF k <= 0 THEN <<>> ELSE <<"0">> \o Zeros(k - 1)

\* "%0<w>d" % n: the sign first, then zeros up to the width w, then the digits.
Pad(n, w) ==
    IF n < 0 THEN <<"-">> \o Zeros(w - 1 - Len(StrNat(0 - n))) \o StrNat(0 - n)
    ELSE Zeros(w - Len(StrNat(n))) \o StrNat(n)

\* Position of the first ch in s, 0 when there is none.
FirstIndex(s, ch) ==
    IF Contains(s, ch) THEN CHOOSE i \in 1..Len(s) : s[i] = ch /\ \A j \in 1..(i - 1) : s[j] # ch
    ELSE 0

(***************************************************************************)
(* flip_y                                                                  *)
(***************************************************************************)
flip_y_off_by_one(zoom, yy) == 2^zoom - yy

flip_y(zoom, yy) == (2^zoom - 1) - yy

(***************************************************************************)
(* Text constants of the program.                                          *)
(***************************************************************************)
PNG == <<"p", "n", "g">>

PBF == <<"p", "b", "f">>

GRID_JSON == <<"g", "r", "i", "d", ".", "j", "s", "o", "n">>

\* kwargs.get('format') of an option that was not supplied: Python's None, kept
\* apart from every text (a text has one-character elements).
NoneText == <<"None">>

\* First byte of a gzip stream (0x1f); byte 123 is "{", the start of a JSON object.
GzipMagic == 31

WarnNoMetadata == "metadata.json not found"

WarnNotArcgis == "You appear to be using an ags scheme on an non-arcgis Server cache."

WarnArcgis == "You appear to be using a non-ags scheme on an arcgis Server cache."

(***************************************************************************)
(* Inputs: the directory trees, containers and options the runs start from.*)
(***************************************************************************)
ZoomDirMenu == {<<"1">>, <<"0", "1">>, <<"L", "1">>}

RowDirMenu == {<<"0">>, <<"R", "1">>}

FileNameMenu ==
    { <<"0">> \o <<".">> \o PNG, <<"1">> \o <<".">> \o PNG, <<"C", "1">> \o <<".">> \o PNG,
      <<"a", ".", "t", "x", "t">>, <<"r", "e", "a", "d", "m", "e">>,
      <<"0">> \o <<".">> \o GRID_JSON }

DataMenu == {<<>>, <<7>>}

DiskFile == [zoomDir : ZoomDirMenu, rowDir : RowDirMenu, name : FileNameMenu, data : DataMenu]

SamePath(f, g) == f.zoomDir = g.zoomDir /\ f.rowDir = g.rowDir /\ f.name = g.name

\* The files of a directory tree in the order os.listdir walks them (an order
\* the operating system chooses): paths are distinct and the files of one
\* directory follow each other.
IsWalk(d) ==
    /\ \A i, j \in 1..Len(d) : i # j => ~SamePath(d[i], d[j])
    /\ \A i, j, k \in 1..Len(d) :
          (i < j /\ j < k) =>
             /\ d[i].zoomDir = d[k].zoomDir => d[j].zoomDir = d[i].zoomDir
             /\ (d[i].zoomDir = d[k].zoomDir /\ d[i].rowDir = d[k].rowDir)
                   => d[j].rowDir = d[i].rowDir

RECURSIVE SeqsUpTo(_, _)
SeqsUpTo(S, n) ==
    IF n = 0 THEN {<<>>}
    ELSE LET shorter == SeqsUpTo(S, n - 1)
         IN shorter \cup {Append(q, e) : q \in {r \in shorter : Len(r) = n - 1}, e \in S}

\* The trees of at most n files, each taken from the set F.
Walks(F, n) == {d \in SeqsUpTo(F, n) : IsWalk(d)}

SchemeMenu == {"tms", "xyz", "ags"}

(***************************************************************************)
(* State.                                                                  *)
(***************************************************************************)
VARIABLES
    scheme,        \* kwargs.get('scheme')
    opt_format,    \* kwargs.get('format'), NoneText when not supplied
    callback,      \* kwargs.get('callback')
    chunk,         \* compression_do's chunk
    disk,          \* the source directory tree, as the walk meets its files
    hasMeta,       \* whether metadata.json can be opened
    metaJson,      \* the object metadata.json holds: a set of <<name, value>>
    pc,            \* where the run is
    error,         \* the exception that ended the run
    warnings,      \* logger.warning messages so far
    fi,            \* position of the walk in disk
    z, x, y,       \* the locals z, x, y of disk_to_mbtiles
    image_format,  \* the local image_format of disk_to_mbtiles
    schema,        \* "none", "raw" (mbtiles_setup) or "compacted" (tiles is a view)
    tiles,         \* rows of table tiles, in rowid order
    metadata,      \* rows of table metadata: a set of <<name, value>>
    grids,         \* rows of table grids
    grid_data,     \* rows of table grid_data
    images,        \* rows of table images
    map,           \* rows of table map
    ci,            \* the loop variable i of compression_do
    total_tiles,   \* the local total_tiles of compression_do
    ids, files,    \* the locals ids and files of compression_do
    nextId,        \* the uuid4 values handed out so far
    pre,           \* history: the rows of tiles when compaction began
    cursor,        \* the rows the export cursor is still to return, and returned
    ti,            \* position of the export cursor
    count, done,   \* the locals count and done
    tile_format,   \* the local tile_format of mbtiles_to_disk
    sink,          \* write_file calls so far: [dir, name, data]
    fz, fy, fr     \* flip_y: zoom, row, result

vars == <<scheme, opt_format, callback, chunk, disk, hasMeta, metaJson, pc, error,
          warnings, fi, z, x, y, image_format, schema, tiles, metadata, grids,
          grid_data, images, map, ci, total_tiles, ids, files, nextId, pre, cursor,
          ti, count, done, tile_format, sink, fz, fy, fr>>

optionVars == <<scheme, opt_format, callback, disk, hasMeta, metaJson>>

importVars == <<fi, z, x, y, image_format, warnings>>

compressVars == <<chunk, images, map, ci, total_tiles, ids, files, nextId, pre>>

exportVars == <<cursor, ti, done, tile_format, sink>>

flipVars == <<fz, fy, fr>>

\* Everything but the options, as it is before a run starts.
Blank ==
    /\ chunk = 1 /\ error = "none" /\ warnings = {} /\ fi = 1
    /\ z = 0 /\ x = 0 /\ y = 0 /\ image_format = NoneText
    /\ images = <<>> /\ map = <<>> /\ ci = 0 /\ total_tiles = 0
    /\ ids = <<>> /\ files = <<>> /\ nextId = 0 /\ pre = <<>>
    /\ cursor = <<>> /\ ti = 1 /\ count = 0 /\ done = 0
    /\ tile_format = NoneText /\ sink = <<>>

NoFlip == fz = 0 /\ fy = 0 /\ fr = 0

(***************************************************************************)
(* Container helpers.                                                      *)
(***************************************************************************)
Addr(r) == <<r.zoom_level, r.tile_column, r.tile_row>>

Tile(r) == <<r.zoom_level, r.tile_column, r.tile_row, r.tile_data>>

Rows(tbl) == {tbl[i] : i \in 1..Len(tbl)}

\* A rowid sqlite gives an inserted row: one more than the largest in the table.
NextRowId(tbl) == IF tbl = <<>> THEN 1 ELSE tbl[Len(tbl)].rowid + 1

no_tile_index(tbl, zz, xx, yy) == FALSE

\* The unique index tile_index on tiles (zoom_level, tile_column, tile_row):
\* whether an insert of this address is refused.
tile_index(tbl, zz, xx, yy) == \E r \in Rows(tbl) : Addr(r) = <<zz, xx, yy>>

\* json.loads of a grid file and the fields the import reads from it. What the
\* model keeps of a UTFGrid: its bytes stand for the envelope, it lists the
\* keys "" and "k", and its data object maps "k" to the bytes. Empty content is
\* no JSON document.
IsUtfGrid(content) == content # <<>>

UtfGridKeys(content) == <<"", "k">>

(***************************************************************************)
(* disk_to_mbtiles                                                         *)
(***************************************************************************)
\* Where the walk goes after the file at position i.
AfterFile(i) ==
    IF i + 1 > Len(disk) THEN "finish"
    ELSE IF disk[i + 1].zoomDir # disk[i].zoomDir THEN "zoom"
    ELSE IF disk[i + 1].rowDir # disk[i].rowDir THEN "row"
    ELSE "file"

image_format_after_metadata_kept(fmt) == IF fmt = NoneText THEN PNG ELSE fmt

\* image_format = kwargs.get('format') inside the try, once metadata.json is loaded.
image_format_after_metadata(fmt) == fmt

\* Connect, mbtiles_setup, the format option and metadata.json.
ImportSetup ==
    /\ pc = "start"
    /\ schema' = "raw"
    /\ tiles' = <<>> /\ grids' = <<>> /\ grid_data' = <<>>
    /\ IF hasMeta
         THEN /\ image_format' = image_format_after_metadata(opt_format)
              /\ metadata' = metaJson
              /\ warnings' = warnings
         ELSE /\ image_format' = (IF opt_format = NoneText THEN PNG ELSE opt_format)
              /\ metadata' = {}
              /\ warnings' = warnings \cup {WarnNoMetadata}
    /\ count' = 0
    /\ fi' = 1
    /\ pc' = IF Len(disk) = 0 THEN "finish" ELSE "zoom"
    /\ UNCHANGED <<optionVars, error, z, x, y, compressVars, exportVars, flipVars>>

\* One iteration of the loop over zoom directories, up to its first row directory.
ImportZoomDir ==
    /\ pc = "zoom"
    /\ LET zoomDir == disk[fi].zoomDir
           token == IF scheme = "ags" THEN Replace(zoomDir, "L") ELSE zoomDir
           warn == IF scheme = "ags"
                     THEN (IF ~Contains(zoomDir, "L") THEN {WarnNotArcgis} ELSE {})
                     ELSE (IF Contains(zoomDir, "L") THEN {WarnArcgis} ELSE {})
       IN /\ warnings' = warnings \cup warn
          /\ IF CanParse(token, 10)
               THEN z' = ParseInt(token, 10) /\ pc' = "row" /\ error' = error
               ELSE z' = z /\ pc' = "aborted" /\ error' = "ValueError: zoomDir"
    /\ UNCHANGED <<optionVars, fi, x, y, image_format, schema, tiles, metadata, grids,
                   grid_data, compressVars, exportVars, count, flipVars>>

\* One iteration of the loop over row directories, up to its first file.
ImportRowDir ==
    /\ pc = "row"
    /\ LET rowDir == disk[fi].rowDir
           token == IF scheme = "ags" THEN Replace(rowDir, "R") ELSE rowDir
           base == IF scheme = "ags" THEN 16 ELSE 10
       IN IF CanParse(token, base)
            THEN /\ IF scheme = "ags"
                      THEN y' = flip_y(z, ParseInt(token, 16)) /\ x' = x
                      ELSE x' = ParseInt(token, 10) /\ y' = y
                 /\ pc' = "file" /\ error' = error
            ELSE x' = x /\ y' = y /\ pc' = "aborted" /\ error' = "ValueError: rowDir"
    /\ UNCHANGED <<optionVars, fi, z, image_format, warnings, schema, tiles, metadata,
                   grids, grid_data, compressVars, exportVars, count, flipVars>>

\* One iteration of the loop over the files of a leaf directory.
ImportFile ==
    /\ pc = "file"
    /\ LET current_file == disk[fi].name
           file_content == disk[fi].data
           dot == FirstIndex(current_file, ".")
           file_name == SubSeq(current_file, 1, dot - 1)
           ext == SubSeq(current_file, dot + 1, Len(current_file))
           token == IF scheme = "ags" THEN Replace(file_name, "C") ELSE file_name
           base == IF scheme = "ags" THEN 16 ELSE 10
           xx == IF scheme = "ags" THEN ParseInt(token, 16) ELSE x
           yy == IF scheme = "xyz" THEN flip_y(z, ParseInt(token, 10))
                 ELSE IF scheme = "ags" THEN y
                 ELSE ParseInt(token, 10)
           grid_keys == SelectSeq(UtfGridKeys(file_content), LAMBDA k : k # "")
       IN IF dot = 0
            THEN /\ pc' = "aborted" /\ error' = "ValueError: split"
                 /\ UNCHANGED <<fi, x, y, tiles, grids, grid_data, count>>
          ELSE IF ~CanParse(token, base)
            THEN /\ pc' = "aborted" /\ error' = "ValueError: file_name"
                 /\ UNCHANGED <<fi, x, y, tiles, grids, grid_data, count>>
          ELSE /\ x' = xx /\ y' = yy
               /\ IF ext = image_format
                    THEN IF tile_index(tiles, z, xx, yy)
                           THEN /\ pc' = "aborted" /\ error' = "IntegrityError"
                                /\ UNCHANGED <<fi, tiles, grids, grid_data, count>>
                           ELSE /\ tiles' = Append(tiles,
                                        [rowid |-> NextRowId(tiles), zoom_level |-> z,
                                         tile_column |-> xx, tile_row |-> yy,
                                         tile_data |-> file_content])
                                /\ count' = count + 1
                                /\ fi' = fi + 1 /\ pc' = AfterFile(fi) /\ error' = error
                                /\ UNCHANGED <<grids, grid_data>>
                  ELSE IF ext = GRID_JSON
                    THEN IF IsUtfGrid(file_content)
                           THEN /\ grids' = Append(grids,
                                        [zoom_level |-> z, tile_column |-> xx,
                                         tile_row |-> yy, grid |-> file_content])
                                /\ grid_data' = grid_data \o
                                        [k \in 1..Len(grid_keys) |->
                                           [zoom_level |-> z, tile_column |-> xx,
                                            tile_row |-> yy, key_name |-> grid_keys[k],
                                            key_json |-> file_content]]
                                /\ fi' = fi + 1 /\ pc' = AfterFile(fi) /\ error' = error
                                /\ UNCHANGED <<tiles, count>>
                           ELSE /\ pc' = "aborted" /\ error' = "ValueError: json"
                                /\ UNCHANGED <<fi, tiles, grids, grid_data, count>>
                  ELSE /\ fi' = fi + 1 /\ pc' = AfterFile(fi) /\ error' = error
                       /\ UNCHANGED <<tiles, grids, grid_data, count>>
    /\ UNCHANGED <<optionVars, z, image_format, warnings, schema, metadata,
                   compressVars, exportVars, flipVars>>

\* After the walk: optimize_database (ANALYZE, VACUUM change no row).
ImportFinish ==
    /\ pc = "finish"
    /\ pc' = "imported"
    /\ UNCHANGED <<optionVars, error, importVars, schema, tiles, metadata, grids,
                   grid_data, compressVars, exportVars, count, flipVars>>

(***************************************************************************)
(* compression_prepare, compression_do, compression_finalize              *)
(***************************************************************************)
\* The rows the window's select returns: rowid > i * chunk and rowid <= (i + 1) * chunk.
WindowRows(tbl, i, c) == SelectSeq(tbl, LAMBDA r : r.rowid > i * c /\ r.rowid <= (i + 1) * c)

\* The last value of i: range(total_tiles // chunk + 1).
LastWindow(total, c) == total \div c

seen_carried_over(ids_, files_) == [ids |-> ids_, files |-> files_]

\* ids = [] and files = [] at the start of every window.
seen_at_window_start(ids_, files_) == [ids |-> <<>>, files |-> <<>>]

\* files.index(data): the position of the first equal entry.
IndexOf(fs, data) == CHOOSE i \in 1..Len(fs) : fs[i] = data /\ \A j \in 1..(i - 1) : fs[j] # data

InFiles(fs, data) == \E i \in 1..Len(fs) : fs[i] = data

MapRow(r, id) == [zoom_level |-> r.zoom_level, tile_column |-> r.tile_column,
                  tile_row |-> r.tile_row, tile_id |-> id]

\* The loop over the rows of one window; st holds ids, files, images, map and
\* the uuid4 values handed out (each call of uuid4 gives a value not given before).
RECURSIVE DoRows(_, _)
DoRows(rows, st) ==
    IF rows = <<>> THEN st
    ELSE LET r == Head(rows)
         IN IF InFiles(st.files, r.tile_data)
              THEN DoRows(Tail(rows),
                     [st EXCEPT !.map = Append(@, MapRow(r, st.ids[IndexOf(st.files, r.tile_data)]))])
              ELSE LET id == st.nextId + 1
                   IN DoRows(Tail(rows),
                        [ids |-> Append(st.ids, id),
                         files |-> Append(st.files, r.tile_data),
                         images |-> Append(st.images, [tile_id |-> id, tile_data |-> r.tile_data]),
                         map |-> Append(st.map, MapRow(r, id)),
                         nextId |-> id])

\* compression_prepare: images and map are created unless they exist.
CompressionPrepare ==
    /\ pc = "imported"
    /\ schema = "raw"
    /\ pc' = "prepared"
    /\ pre' = tiles
    /\ UNCHANGED <<optionVars, error, importVars, schema, tiles, metadata, grids,
                   grid_data, chunk, images, map, ci, total_tiles, ids, files, nextId,
                   exportVars, count, flipVars>>

\* compression_do up to its loop: the count query.
CompressionStart ==
    /\ pc = "prepared"
    /\ \E c \in 1..MaxChunk : chunk' = c
    /\ total_tiles' = Len(tiles)
    /\ ci' = 0
    /\ pc' = "compress"
    /\ UNCHANGED <<optionVars, error, importVars, schema, tiles, metadata, grids,
                   grid_data, images, map, ids, files, nextId, pre, exportVars, count,
                   flipVars>>

\* One iteration of the loop over windows, with its commit.
CompressionWindow ==
    /\ pc = "compress"
    /\ ci <= LastWindow(total_tiles, chunk)
    /\ LET seen == seen_at_window_start(ids, files)
           st == DoRows(WindowRows(tiles, ci, chunk),
                        [ids |-> seen.ids, files |-> seen.files, images |-> images,
                         map |-> map, nextId |-> nextId])
       IN /\ ids' = st.ids /\ files' = st.files /\ images' = st.images
          /\ map' = st.map /\ nextId' = st.nextId
    /\ ci' = ci + 1
    /\ UNCHANGED <<optionVars, pc, error, importVars, schema, tiles, metadata, grids,
                   grid_data, chunk, total_tiles, pre, exportVars, count, flipVars>>

\* What CREATE UNIQUE INDEX map_index and images_id refuse.
DuplicateAddr(tbl) == \E i, j \in 1..Len(tbl) : i # j /\ Addr(tbl[i]) = Addr(tbl[j])

DuplicateTileId(tbl) == \E i, j \in 1..Len(tbl) : i # j /\ tbl[i].tile_id = tbl[j].tile_id

\* compression_finalize: tiles is dropped and becomes a view; the unique
\* indexes map_index and images_id are refused over rows that repeat a key.
CompressionFinalize ==
    /\ pc = "compress"
    /\ ci > LastWindow(total_tiles, chunk)
    /\ tiles' = <<>>
    /\ schema' = "compacted"
    /\ IF DuplicateAddr(map) \/ DuplicateTileId(images)
         THEN pc' = "aborted" /\ error' = "IntegrityError: index"
         ELSE pc' = "compacted" /\ error' = error
    /\ UNCHANGED <<optionVars, importVars, metadata, grids, grid_data, compressVars,
                   exportVars, count, flipVars>>

\* The rows of tiles as a select returns them: the table's rows in rowid
\* order, or the view's join of map with images on tile_id.
RECURSIVE Join(_, _)
Join(m, img) ==
    IF m = <<>> THEN <<>>
    ELSE LET hits == SelectSeq(img, LAMBDA b : b.tile_id = Head(m).tile_id)
         IN [k \in 1..Len(hits) |->
               [zoom_level |-> Head(m).zoom_level, tile_column |-> Head(m).tile_column,
                tile_row |-> Head(m).tile_row, tile_data |-> hits[k].tile_data]]
            \o Join(Tail(m), img)

TilesSelect ==
    IF schema = "compacted" THEN Join(map, images)
    ELSE [k \in 1..Len(tiles) |->
            [zoom_level |-> tiles[k].zoom_level, tile_column |-> tiles[k].tile_column,
             tile_row |-> tiles[k].tile_row, tile_data |-> tiles[k].tile_data]]

(***************************************************************************)
(* mbtiles_to_disk                                                         *)
(***************************************************************************)
METADATA_JSON == <<"m", "e", "t", "a", "d", "a", "t", "a", ".", "j", "s", "o", "n">>

LAYER_JSON == <<"l", "a", "y", "e", "r", ".", "j", "s", "o", "n">>

\* json.dumps of an object, kept as its first byte "{" (123).
JsonBytes == <<123>>

\* kwargs.get('callback') when no callback was supplied.
NoCallback == <<0 - 1>>

HasKey(md, k) == \E e \in md : e[1] = k

Get(md, k) == (CHOOSE e \in md : e[1] = k)[2]

\* gzip.GzipFile(...).read(): a gzip stream gives its payload back, other bytes
\* raise IOError. A stream is kept as the magic byte followed by its payload.
IsGzip(data) == Len(data) > 0 /\ data[1] = GzipMagic

Gunzip(data) == Tail(data)

tile_dir_two_levels(sch, zz, xx, yy) ==
    IF sch = "wms"
      THEN <<Pad(zz, 2), Pad(xx \div 1000000, 3), Pad((xx \div 1000) % 1000, 3),
             Pad(yy \div 1000000, 3), Pad((yy \div 1000) % 1000, 3)>>
      ELSE <<Str(zz), Str(xx)>>

\* tile_dir: the segments os.path.join puts together.
tile_dir(sch, zz, xx, yy) ==
    IF sch = "wms"
      THEN <<Pad(zz, 2), Pad(xx \div 1000000, 3), Pad((xx \div 1000) % 1000, 3),
             Pad(xx % 1000, 3), Pad(yy \div 1000000, 3), Pad((yy \div 1000) % 1000, 3)>>
      ELSE <<Str(zz), Str(xx)>>

\* tile: the file name; yy is the row after the xyz flip.
tile_name(sch, yy, fmt) ==
    IF sch = "wms" THEN Pad(yy % 1000, 3) \o <<".">> \o fmt
    ELSE Str(yy) \o <<".">> \o fmt

count_after_skip_kept(n) == n

\* count -= 1 for a tile of zero length.
count_after_skip(n) == n - 1

\* Up to the tile loop: metadata.json, the tile format, the count, layer.json
\* and the select the loop reads from.
ExportStart ==
    /\ pc \in {"imported", "compacted"}
    /\ tile_format' = IF HasKey(metadata, "format") THEN Get(metadata, "format")
                      ELSE IF opt_format = NoneText THEN PNG ELSE opt_format
    /\ sink' = <<[dir |-> <<>>, name |-> METADATA_JSON, data |-> JsonBytes]>>
               \o (IF HasKey(metadata, "formatter") /\ Get(metadata, "formatter") # <<>>
                     THEN <<[dir |-> <<>>, name |-> LAYER_JSON, data |-> JsonBytes]>>
                     ELSE <<>>)
    /\ cursor' = TilesSelect
    /\ count' = Len(TilesSelect)
    /\ done' = 0
    /\ ti' = 1
    /\ pc' = "export"
    /\ UNCHANGED <<optionVars, error, importVars, schema, tiles, metadata, grids,
                   grid_data, compressVars, flipVars>>

\* One iteration of the tile loop.
ExportTile ==
    /\ pc = "export"
    /\ ti <= Len(cursor)
    /\ LET t == cursor[ti]
           yy == IF scheme = "xyz" THEN flip_y(t.zoom_level, t.tile_row) ELSE t.tile_row
           dir == tile_dir(scheme, t.zoom_level, t.tile_column, yy)
           name == tile_name(scheme, yy, tile_format)
       IN IF Len(t.tile_data) > 0
            THEN IF tile_format = PBF /\ ~IsGzip(t.tile_data)
                   THEN /\ pc' = "aborted" /\ error' = "IOError: gzip"
                        /\ UNCHANGED <<sink, done, count, ti>>
                   ELSE /\ sink' = Append(sink,
                               [dir |-> dir, name |-> name,
                                data |-> IF tile_format = PBF THEN Gunzip(t.tile_data)
                                         ELSE t.tile_data])
                        /\ done' = done + 1
                        /\ ti' = ti + 1
                        /\ UNCHANGED <<pc, error, count>>
            ELSE /\ count' = count_after_skip(count)
                 /\ ti' = ti + 1
                 /\ UNCHANGED <<pc, error, sink, done>>
    /\ UNCHANGED <<optionVars, importVars, schema, tiles, metadata, grids, grid_data,
                   compressVars, cursor, tile_format, flipVars>>

\* After the tile loop, up to the grid loop: done = 0 and the count of grids.
ExportGridsStart ==
    /\ pc = "export"
    /\ ti > Len(cursor)
    /\ done' = 0
    /\ count' = Len(grids)
    /\ ti' = 1
    /\ pc' = "export_grids"
    /\ UNCHANGED <<optionVars, error, importVars, schema, tiles, metadata, grids,
                   grid_data, compressVars, cursor, tile_format, sink, flipVars>>

\* One iteration of the grid loop: the envelope with its data joined back,
\* plain or wrapped as callback(...);
ExportGrid ==
    /\ pc = "export_grids"
    /\ ti <= Len(grids)
    /\ LET g == grids[ti]
           yy == IF scheme = "xyz" THEN flip_y(g.zoom_level, g.tile_row) ELSE g.tile_row
           plain == callback \in {NoCallback, <<>>, <<102, 97, 108, 115, 101>>,
                                   <<110, 117, 108, 108>>}
       IN sink' = Append(sink,
                    [dir |-> <<Str(g.zoom_level), Str(g.tile_column)>>,
                     name |-> Str(yy) \o <<".">> \o GRID_JSON,
                     data |-> IF plain THEN g.grid
                              ELSE callback \o <<40>> \o g.grid \o <<41, 59>>])
    /\ done' = done + 1
    /\ ti' = ti + 1
    /\ UNCHANGED <<optionVars, pc, error, importVars, schema, tiles, metadata, grids,
                   grid_data, compressVars, cursor, count, tile_format, flipVars>>

ExportFinish ==
    /\ pc = "export_grids"
    /\ ti > Len(grids)
    /\ pc' = "exported"
    /\ UNCHANGED <<optionVars, error, importVars, schema, tiles, metadata, grids,
                   grid_data, compressVars, exportVars, count, flipVars>>

(***************************************************************************)
(* The whole program: import, then compaction or not, then export.         *)
(***************************************************************************)
Init ==
    /\ scheme \in SchemeMenu
    /\ opt_format \in {NoneText, PNG}
    /\ callback = NoCallback
    /\ disk \in Walks(DiskFile, MaxFiles)
    /\ hasMeta \in BOOLEAN
    /\ metaJson = IF hasMeta THEN {<<"name", <<"m">>>>} ELSE {}
    /\ pc = "start"
    /\ schema = "none"
    /\ tiles = <<>> /\ metadata = {} /\ grids = <<>> /\ grid_data = <<>>
    /\ Blank /\ NoFlip

Next ==
    \/ ImportSetup
    \/ ImportZoomDir
    \/ ImportRowDir
    \/ ImportFile
    \/ ImportFinish
    \/ CompressionPrepare
    \/ CompressionStart
    \/ CompressionWindow
    \/ CompressionFinalize
    \/ ExportStart
    \/ ExportTile
    \/ ExportGridsStart
    \/ ExportGrid
    \/ ExportFinish

Spec == Init /\ [][Next]_vars

(***************************************************************************)
(* Import of a tree of tile files followed by compaction: trees whose       *)
(* tokens all parse, so that every file reaches the insert, with zoom       *)
(* directories (1 and 01) that name the same zoom level.                    *)
(***************************************************************************)
BuildFile == [zoomDir : {<<"1">>, <<"0", "1">>}, rowDir : {<<"0">>, <<"1">>},
              name : {<<"0">> \o <<".">> \o PNG, <<"1">> \o <<".">> \o PNG},
              data : {<<7>>, <<8>>}]

InitBuild ==
    /\ scheme \in SchemeMenu
    /\ opt_format \in {NoneText, PNG}
    /\ callback = NoCallback
    /\ disk \in Walks(BuildFile, MaxFiles)
    /\ hasMeta = FALSE
    /\ metaJson = {}
    /\ pc = "start"
    /\ schema = "none"
    /\ tiles = <<>> /\ metadata = {} /\ grids = <<>> /\ grid_data = <<>>
    /\ Blank /\ NoFlip

NextBuild ==
    \/ ImportSetup
    \/ ImportZoomDir
    \/ ImportRowDir
    \/ ImportFile
    \/ ImportFinish
    \/ CompressionPrepare
    \/ CompressionStart
    \/ CompressionWindow
    \/ CompressionFinalize

SpecBuild == InitBuild /\ [][NextBuild]_vars

(***************************************************************************)
(* Compaction of a container that already exists: compression_do is given  *)
(* a cursor on any raw-schema container, whose rowids are those sqlite     *)
(* gave its rows (rows deleted since leave gaps).                          *)
(***************************************************************************)
CompactDataMenu == {<<>>, <<7>>, <<8>>}

RowIdSets == {S \in SUBSET (1..MaxRowId) : Cardinality(S) <= MaxTiles}

RECURSIVE RowsInOrder(_, _)
RowsInOrder(S, dataOf) ==
    IF S = {} THEN <<>>
    ELSE LET r == CHOOSE m \in S : \A o \in S : m <= o
         IN <<[rowid |-> r, zoom_level |-> 3, tile_column |-> r, tile_row |-> 0,
               tile_data |-> dataOf[r]]>> \o RowsInOrder(S \ {r}, dataOf)

InitCompact ==
    /\ scheme = "tms" /\ opt_format = NoneText /\ callback = NoCallback
    /\ disk = <<>> /\ hasMeta = FALSE /\ metaJson = {}
    /\ pc = "imported"
    /\ schema = "raw"
    /\ \E S \in RowIdSets : \E dataOf \in [S -> CompactDataMenu] :
          tiles = RowsInOrder(S, dataOf)
    /\ metadata = {} /\ grids = <<>> /\ grid_data = <<>>
    /\ Blank /\ NoFlip

NextCompact ==
    \/ CompressionPrepare
    \/ CompressionStart
    \/ CompressionWindow
    \/ CompressionFinalize

SpecCompact == InitCompact /\ [][NextCompact]_vars

(***************************************************************************)
(* Export of a container that already exists.                              *)
(***************************************************************************)
ExportAddrMenu == {<<2, 1, 3>>, <<11, 1234567, 7>>, <<21, 7, 1234567>>, <<21, 1000000, 999999>>}

ExportDataMenu == {<<>>, <<7>>, <<GzipMagic, 7>>}

ExportRow == {[rowid |-> 0, zoom_level |-> a[1], tile_column |-> a[2], tile_row |-> a[3],
               tile_data |-> d] : a \in ExportAddrMenu, d \in ExportDataMenu}

\* Rows in rowid order with the rowids 1, 2, ... and no address twice.
ExportTables ==
    {[k \in 1..Len(q) |-> [q[k] EXCEPT !.rowid = k]] :
        q \in {r \in SeqsUpTo(ExportRow, MaxExportTiles) : ~DuplicateAddr(r)}}

ExportMetadataMenu == {{}, {<<"format", PBF>>}, {<<"formatter", <<"f">>>>}}

ExportGridsMenu ==
    {<<>>, <<[zoom_level |-> 2, tile_column |-> 1, tile_row |-> 3, grid |-> <<123>>]>>}

InitExport ==
    /\ scheme \in {"tms", "xyz", "wms"}
    /\ opt_format \in {NoneText, PNG, PBF}
    /\ callback \in {NoCallback, <<99, 98>>}
    /\ disk = <<>> /\ hasMeta = FALSE /\ metaJson = {}
    /\ pc = "imported"
    /\ schema = "raw"
    /\ tiles \in ExportTables
    /\ metadata \in ExportMetadataMenu
    /\ grids \in ExportGridsMenu
    /\ grid_data = <<>>
    /\ Blank /\ NoFlip

NextExport ==
    \/ ExportStart
    \/ ExportTile
    \/ ExportGridsStart
    \/ ExportGrid
    \/ ExportFinish

SpecExport == InitExport /\ [][NextExport]_vars

(***************************************************************************)
(* flip_y applied once and twice to a valid row.                           *)
(***************************************************************************)
InitFlip ==
    /\ scheme = "xyz" /\ opt_format = NoneText /\ callback = NoCallback
    /\ disk = <<>> /\ hasMeta = FALSE /\ metaJson = {}
    /\ pc = "flip"
    /\ schema = "none"
    /\ tiles = <<>> /\ metadata = {} /\ grids = <<>> /\ grid_data = <<>>
    /\ Blank
    /\ fz \in 0..MaxZoom
    /\ fy \in 0..(2^fz - 1)
    /\ fr = fy

FlipOnce ==
    /\ pc = "flip"
    /\ fr' = flip_y(fz, fy)
    /\ pc' = "flipped"
    /\ UNCHANGED <<optionVars, error, importVars, schema, tiles, metadata, grids,
                   grid_data, compressVars, exportVars, count, fz, fy>>

FlipBack ==
    /\ pc = "flipped"
    /\ fr' = flip_y(fz, fr)
    /\ pc' = "flipped back"
    /\ UNCHANGED <<optionVars, error, importVars, schema, tiles, metadata, grids,
                   grid_data, compressVars, exportVars, count, fz, fy>>

NextFlip ==
    \/ FlipOnce
    \/ FlipBack

SpecFlip == InitFlip /\ [][NextFlip]_vars

(***************************************************************************)
(* Properties.                                                             *)
(***************************************************************************)
\* The windows compression_do has finished when the run is at its loop or past it.
Window(r) == (r.rowid - 1) \div chunk

DistinctIn(i) == Cardinality({r.tile_data : r \in Rows(WindowRows(pre, i, chunk))})

RECURSIVE SumDistinct(_)
SumDistinct(n) == IF n <= 0 THEN 0 ELSE SumDistinct(n - 1) + DistinctIn(n - 1)

\* The tile_id of the map row written for the tiles row r.
MapId(r) == (CHOOSE m \in Rows(map) : Addr(m) = Addr(r)).tile_id

Processed == {r \in Rows(pre) : r.rowid >= 1 /\ Window(r) < ci}

\* C1: after compression_prepare, compression_do and compression_finalize, the
\* tiles view holds exactly the (zoom_level, tile_column, tile_row, tile_data)
\* rows the tiles table held before, whatever the rowids and the chunk size.
C1_CompactionKeepsEveryTile ==
    pc = "compacted" => {Tile(r) : r \in Rows(TilesSelect)} = {Tile(r) : r \in Rows(pre)}

\* C2: deduplication is local to a window: the images rows number the sum, over
\* the windows done, of the distinct byte sequences of each window; every
\* processed tile has one map row, pointing at an images row with its bytes;
\* two tiles of one window with equal bytes share a tile_id; two tiles of
\* different windows never do, equal bytes or not.
C2_ChunkLocalDedup ==
    pc \in {"compress", "compacted"} =>
       /\ Len(images) = SumDistinct(ci)
       /\ Len(map) = Cardinality(Processed)
       /\ \A r \in Processed :
             \E b \in Rows(images) : b.tile_id = MapId(r) /\ b.tile_data = r.tile_data
       /\ \A p, q \in Processed :
             /\ (Window(p) = Window(q) /\ p.tile_data = q.tile_data) => MapId(p) = MapId(q)
             /\ Window(p) # Window(q) => MapId(p) # MapId(q)

\* C2 witness: a finished compaction in which two tiles of one window shared a
\* blob and a tile of another window with the same bytes got a blob of its own.
C2_Witness ==
    /\ pc = "compacted"
    /\ \E p, q, r \in Processed :
          /\ p # q /\ Window(p) = Window(q) /\ p.tile_data = q.tile_data
          /\ Window(r) # Window(p) /\ r.tile_data = p.tile_data
          /\ MapId(p) = MapId(q) /\ MapId(r) # MapId(p)

\* The extension split('.', 1) gives; a name without a dot has none.
NoExtension == <<"no extension">>

Ext(name) ==
    IF FirstIndex(name, ".") = 0 THEN NoExtension
    ELSE SubSeq(name, FirstIndex(name, ".") + 1, Len(name))

BaseName(name) ==
    IF FirstIndex(name, ".") = 0 THEN name ELSE SubSeq(name, 1, FirstIndex(name, ".") - 1)

RequestedFormat == IF opt_format = NoneText THEN PNG ELSE opt_format

RECURSIVE StripZeros(_)
StripZeros(s) == IF Len(s) > 1 /\ s[1] = "0" THEN StripZeros(Tail(s)) ELSE s

\* A path token up to the zeros that pad its number: the letter it starts with
\* (L, R, C) and its digits.
Canon(s) ==
    IF Len(s) > 0 /\ s[1] \in {"L", "R", "C"} THEN <<s[1]>> \o StripZeros(Tail(s))
    ELSE StripZeros(s)

EquivalentPath(f, w) ==
    /\ Len(w.dir) = 2
    /\ Canon(w.dir[1]) = Canon(f.zoomDir)
    /\ Canon(w.dir[2]) = Canon(f.rowDir)
    /\ Canon(BaseName(w.name)) = Canon(BaseName(f.name))
    /\ Ext(w.name) = Ext(f.name)

\* A file at a path of the scheme's layout: {zoom}/{column}/{row}.{format} in
\* decimal for tms and xyz, L{zoom}/R{hexRow}/C{hexCol}.{format} for ags.
LaidOut(f) ==
    IF scheme = "ags"
      THEN /\ Len(f.zoomDir) > 1 /\ f.zoomDir[1] = "L" /\ CanParse(Tail(f.zoomDir), 10)
           /\ Len(f.rowDir) > 1 /\ f.rowDir[1] = "R" /\ CanParse(Tail(f.rowDir), 16)
           /\ Len(BaseName(f.name)) > 1 /\ f.name[1] = "C"
           /\ CanParse(Tail(BaseName(f.name)), 16)
      ELSE /\ CanParse(f.zoomDir, 10) /\ CanParse(f.rowDir, 10)
           /\ CanParse(BaseName(f.name), 10)

\* C3: after disk_to_mbtiles and mbtiles_to_disk with the same scheme (tms,
\* xyz or ags) and the same format, every tile file of the source tree has a
\* written file with the same bytes at an equivalent path. Stated for trees
\* laid out in the scheme, with the format option supplied and tile files
\* that hold bytes (the export passes over a tile of zero length).
C3_RoundTrip ==
    (pc = "exported" /\ opt_format # NoneText) =>
       \A i \in 1..Len(disk) :
          (LaidOut(disk[i]) /\ Ext(disk[i].name) = opt_format /\ disk[i].data # <<>>) =>
             \E j \in 1..Len(sink) :
                sink[j].data = disk[i].data /\ EquivalentPath(disk[i], sink[j])

Mismatch(zoomDir) ==
    IF scheme = "ags" THEN ~Contains(zoomDir, "L") ELSE Contains(zoomDir, "L")

\* C4: a zoom directory whose shape does not match the scheme is warned about
\* and read as well as it can be (its number, the L aside): the run is never
\* aborted at a zoom directory whose only fault is the mismatch.
C4_MismatchNeverAborts ==
    (pc = "aborted" /\ error = "ValueError: zoomDir") =>
       ~(Mismatch(disk[fi].zoomDir) /\ CanParse(Replace(disk[fi].zoomDir, "L"), 10))

\* C5: in the tile loop, count - done is the number of rows still to process,
\* done never exceeds count, done is the number of tile files written, a tile
\* of zero length is never written, and at the end of the loop done = count.
TileWrites == Cardinality({j \in 1..Len(sink) : sink[j].dir # <<>>})

NonEmptySeen == Cardinality({k \in 1..(ti - 1) : Len(cursor[k].tile_data) > 0})

C5_ExportAccounting ==
    pc = "export" =>
       /\ count - done = Len(cursor) - (ti - 1)
       /\ done <= count
       /\ done = TileWrites
       /\ TileWrites = NonEmptySeen
       /\ \A j \in 1..Len(sink) : sink[j].dir # <<>> => sink[j].data # <<>>
       /\ ti > Len(cursor) => (done = count /\ count = TileWrites)

\* C5 witness: the end of a tile loop that wrote one tile and skipped an empty one.
C5_Witness ==
    /\ pc = "export" /\ ti > Len(cursor)
    /\ Len(cursor) = 2 /\ done = 1 /\ count = 1

\* A path segment that is the number v padded with zeros to w digits.
Segment(s, v, w) ==
    /\ CanParse(s, 10) /\ ParseInt(s, 10) = v
    /\ Len(s) >= w /\ (Len(s) > w => s[1] # "0")

\* The tile the loop has just written, and the write.
JustWritten == pc = "export" /\ ti > 1 /\ Len(cursor[ti - 1].tile_data) > 0

LastTile == cursor[ti - 1]

LastWrite == sink[Len(sink)]

\* C6 as stated: column and row are each bucketed into the directories
\* v div 1000000 and (v div 1000) mod 1000, and the file name embeds v mod 1000,
\* for v the column as for v the row.
C6_FileNameEmbedsBoth ==
    (JustWritten /\ scheme = "wms") =>
       \A v \in {LastTile.tile_column, LastTile.tile_row} :
          /\ \E k \in 1..(Len(LastWrite.dir) - 1) :
                /\ Segment(LastWrite.dir[k], v \div 1000000, 3)
                /\ Segment(LastWrite.dir[k + 1], (v \div 1000) % 1000, 3)
          /\ Segment(BaseName(LastWrite.name), v % 1000, 3)

\* C6 amended: under wms the directory is zoom (2 digits), then the column's
\* three groups x div 1000000, (x div 1000) mod 1000, x mod 1000, then the row's
\* two groups y div 1000000, (y div 1000) mod 1000, each padded to 3 digits; the
\* file name is y mod 1000 padded to 3 digits, a dot and the format. Only the
\* row's last group is in the file name; the column's is a directory.
C6_WmsPath ==
    (JustWritten /\ scheme = "wms") =>
       LET xx == LastTile.tile_column
           yy == LastTile.tile_row
           dir == LastWrite.dir
       IN /\ Len(dir) = 6
          /\ Segment(dir[1], LastTile.zoom_level, 2)
          /\ Segment(dir[2], xx \div 1000000, 3)
          /\ Segment(dir[3], (xx \div 1000) % 1000, 3)
          /\ Segment(dir[4], xx % 1000, 3)
          /\ Segment(dir[5], yy \div 1000000, 3)
          /\ Segment(dir[6], (yy \div 1000) % 1000, 3)
          /\ Segment(BaseName(LastWrite.name), yy % 1000, 3)
          /\ Ext(LastWrite.name) = tile_format

\* C6 witness: column 1234567 written under wms as the directories 001, 234, 567.
C6_Witness ==
    /\ JustWritten /\ scheme = "wms"
    /\ LastTile.tile_column = 1234567
    /\ SubSeq(LastWrite.dir, 2, 4) = <<<<"0", "0", "1">>, <<"2", "3", "4">>, <<"5", "6", "7">>>>

\* C7: for 0 <= y < 2^z, flip_y(z, y) lies in 0 .. 2^z - 1 and
\* flip_y(z, flip_y(z, y)) = y.
C7_FlipInvolution ==
    /\ pc = "flipped" => fr \in 0..(2^fz - 1)
    /\ pc = "flipped back" => fr = fy

\* C7 witness: row 0 of the deepest zoom, flipped to the last row and back.
C7_Witness == pc = "flipped back" /\ fz = MaxZoom /\ fy = 0 /\ fr = 0

OtherExtension(name) == Ext(name) \notin {image_format, GRID_JSON}

\* C8: a file whose extension is neither the tile format nor grid.json is
\* passed over: the step that meets it adds no row, changes nothing in the
\* container and goes on to the next file without aborting.
C8_OtherExtensionIgnored ==
    [][(pc = "file" /\ OtherExtension(disk[fi].name)) =>
          /\ pc' # "aborted"
          /\ fi' = fi + 1
          /\ UNCHANGED <<tiles, grids, grid_data, metadata, schema>>]_vars

\* C9: no two rows of tiles, of map or of the tiles view share
\* (zoom_level, tile_column, tile_row), in every state of import and
\* compaction; an insert at an address tiles already holds ends the import with
\* an error and stores nothing.
C9_AddressUnique ==
    /\ ~DuplicateAddr(tiles)
    /\ ~DuplicateAddr(map)
    /\ ~DuplicateAddr(TilesSelect)
    /\ error = "IntegrityError" =>
          /\ pc = "aborted"
          /\ \E r \in Rows(tiles) : Addr(r) = <<z, x, y>>
          /\ Len(tiles) = count

\* C9 witness: the zoom directories 1 and 01 hold the same tile and the second
\* insert was refused.
C9_Witness ==
    /\ pc = "aborted" /\ error = "IntegrityError"
    /\ Len(disk) = 2
    /\ disk[1].zoomDir = <<"1">> /\ disk[2].zoomDir = <<"0", "1">>
    /\ Len(tiles) = 1

\* C10: the tile format of the import is the format option, png when it is
\* not supplied, with or without metadata.json: an import that ends has
\* inserted one row for every file with that extension.
C10_FormatIgnoresMetadata ==
    pc = "imported" =>
       Len(tiles) = Cardinality({i \in 1..Len(disk) : Ext(disk[i].name) = RequestedFormat})

====
